---- MODULE Spec2Model ----
(***************************************************************************)
(* Maze Runner (src/maze_runner.py): the maze generator, the grid BFS, the *)
(* corner-sampling collision test and the MazeRunner session (update and   *)
(* the mouse-click handlers of main_loop).                                 *)
(*                                                                         *)
(* A grid is a function from the cells <<x, y>> to 0 (wall) or 1 (free):   *)
(* grid[y][x] in the source is grid[<<x, y>>] here.  A position is <<x, y>> *)
(* in screen pixels, the top-left corner of an actor's square.             *)
(***************************************************************************)
EXTENDS Integers, Sequences, FiniteSets, TLC

\* ------------------------------------------------------------------------
\* Program constants (src/maze_runner.py:38-72)
\* ------------------------------------------------------------------------
SCREEN_WIDTH == 800
TILE == 32
GRID_COLS == 22
GRID_ROWS == 18
MAZE_PIXEL_WIDTH == GRID_COLS * TILE
OFFSET_X == (SCREEN_WIDTH - MAZE_PIXEL_WIDTH) \div 2
OFFSET_Y == 80
PLAYER_SPEED == 2
ENEMY_SPEED == 2
PLAYER_SIZE == TILE - 6
ENEMY_SIZE == TILE - 6
MAX_LEVEL == 100
START_LIVES == 3

\* ------------------------------------------------------------------------
\* Bounds of the model
\* ------------------------------------------------------------------------
\* Number of calls of update (frames of main_loop) explored in one behaviour.
MaxTicks == 2
\* Period of the stream of random.choice results consumed by the carving.
ChoiceLen == 1
\* Period of the stream of random.randint(1,100) results consumed by the
\* re-blocking pass.
BlockLen == 1
\* The randint results the stream is made of: 3 is at or below every level's
\* blocking chance, 35 only at or below the chance of levels 97..100, 100 is
\* above every chance.
RandDraws == {3, 35, 100}

Max(a, b) == IF a >= b THEN a ELSE b
Min(a, b) == IF a <= b THEN a ELSE b

\* A seed is what one call of generate_maze reads from the random module:
\* choice[k] selects among the unvisited neighbours at the k-th carving step
\* (the stream repeats with period ChoiceLen), block[k] is the k-th randint.
\* An index into the unvisited neighbours: a coarse cell has at most three
\* of them (none has more than four neighbours, and every cell but the first
\* was entered from one).
ChoiceDraws == 0..2

Seeds == [choice : [1..ChoiceLen -> ChoiceDraws], block : [1..BlockLen -> RandDraws]]

\* ------------------------------------------------------------------------
\* generate_maze (src/maze_runner.py:135-197)
\* ------------------------------------------------------------------------
Cells == (0..GRID_COLS - 1) \X (0..GRID_ROWS - 1)
SpawnCell == <<1, 1>>
ExitCell == <<GRID_COLS - 2, GRID_ROWS - 2>>

\* neighbors(cx, cy), before the shuffle: the coarse cells two steps away.
neighbors(cx, cy) ==
  (IF cx - 2 >= 1 THEN << <<cx - 2, cy>> >> ELSE << >>)
  \o (IF cx + 2 <= GRID_COLS - 2 THEN << <<cx + 2, cy>> >> ELSE << >>)
  \o (IF cy - 2 >= 1 THEN << <<cx, cy - 2>> >> ELSE << >>)
  \o (IF cy + 2 <= GRID_ROWS - 2 THEN << <<cx, cy + 2>> >> ELSE << >>)

\* CarveStep without line 172: the wall between the two cells stays.
CarveStep_keeps_wall(s, cs) ==
  LET top == s.stack[Len(s.stack)]
      nb  == SelectSeq(neighbors(top[1], top[2]), LAMBDA p : s.grid[p] = 0)
  IN  IF nb # << >>
      THEN LET n == nb[(cs[(s.k % Len(cs)) + 1] % Len(nb)) + 1]
           IN  [grid |-> [s.grid EXCEPT ![n] = 1], stack |-> Append(s.stack, n),
                k |-> s.k + 1]
      ELSE [s EXCEPT !.stack = SubSeq(s.stack, 1, Len(s.stack) - 1)]

\* CarveStep without line 173: the neighbour is pushed but stays WALL, so
\* it is never seen as visited.
CarveStep_keeps_cell(s, cs) ==
  LET top == s.stack[Len(s.stack)]
      nb  == SelectSeq(neighbors(top[1], top[2]), LAMBDA p : s.grid[p] = 0)
  IN  IF nb # << >>
      THEN LET n == nb[(cs[(s.k % Len(cs)) + 1] % Len(nb)) + 1]
               wall == <<(top[1] + n[1]) \div 2, (top[2] + n[2]) \div 2>>
           IN  [grid |-> [s.grid EXCEPT ![wall] = 1], stack |-> Append(s.stack, n),
                k |-> s.k + 1]
      ELSE [s EXCEPT !.stack = SubSeq(s.stack, 1, Len(s.stack) - 1)]

\* One iteration of the carving loop "while stack" on the loop state
\* s = [grid, stack, k] (k counts the random.choice calls made so far).
\* random.shuffle followed by random.choice over the unvisited neighbours
\* yields one of them; cs[k] says which one.
CarveStep(s, cs) ==
  LET top == s.stack[Len(s.stack)]
      nb  == SelectSeq(neighbors(top[1], top[2]), LAMBDA p : s.grid[p] = 0)
  IN  IF nb # << >>
      THEN LET n == nb[(cs[(s.k % Len(cs)) + 1] % Len(nb)) + 1]
               wall == <<(top[1] + n[1]) \div 2, (top[2] + n[2]) \div 2>>
           IN  [grid |-> [s.grid EXCEPT ![wall] = 1, ![n] = 1], stack |-> Append(s.stack, n),
                k |-> s.k + 1]
      ELSE [s EXCEPT !.stack = SubSeq(s.stack, 1, Len(s.stack) - 1)]

\* "while stack: ..." run for at most fuel iterations (the recursion halves
\* the fuel so that its depth stays logarithmic).
RECURSIVE CarveLoop(_, _, _)
CarveLoop(s, cs, fuel) ==
  IF s.stack = << >> THEN s
  ELSE IF fuel <= 1 THEN CarveStep(s, cs)
  ELSE CarveLoop(CarveLoop(s, cs, fuel \div 2), cs, fuel - (fuel \div 2))

\* Every iteration pushes a coarse cell that was not OPEN or pops one, so
\* twice the number of coarse cells bounds the iterations.
CarveFuel == 2 * ((GRID_COLS - 1) \div 2) * ((GRID_ROWS - 1) \div 2)

Carve(cs) ==
  CarveLoop([grid |-> [c \in Cells |-> IF c = SpawnCell THEN 1 ELSE 0],
             stack |-> <<SpawnCell>>, k |-> 0], cs, CarveFuel)

\* extra_block_chance dividing the level itself (level // 3 for
\* (level - 1) // 3).
extra_block_chance_of_level(level) == Min(35, (level \div 3) + 3)

extra_block_chance(level) == Min(35, ((level - 1) \div 3) + 3)

\* The re-blocking pass on the loop state s = [grid, k, rx, ry]: <<rx, ry>>
\* is the cell the two nested for loops are at, k counts the randint calls
\* made so far (randint is called only for a cell that is OPEN and is
\* neither spawn nor exit).  BlockCell is the body of the inner loop.
BlockCell(s, chance, rs) ==
  IF <<s.rx, s.ry>> \in {SpawnCell, ExitCell} THEN s
  ELSE IF s.grid[<<s.rx, s.ry>>] = 1
       THEN IF rs[(s.k % Len(rs)) + 1] <= chance
            THEN [s EXCEPT !.grid = [s.grid EXCEPT ![<<s.rx, s.ry>>] = 0],
                           !.k = s.k + 1]
            ELSE [s EXCEPT !.k = s.k + 1]
       ELSE s

\* The body at <<rx, ry>>, then the step to the next cell of
\* "for ry in range(1, h-1): for rx in range(1, w-1)".
BlockStep(s, chance, rs) ==
  LET t == BlockCell(s, chance, rs)
  IN  IF t.rx + 1 < GRID_COLS - 1 THEN [t EXCEPT !.rx = t.rx + 1]
      ELSE [t EXCEPT !.rx = 1, !.ry = t.ry + 1]

\* The two loops, for at most fuel cells (halved as in CarveLoop).
RECURSIVE BlockLoop(_, _, _, _)
BlockLoop(s, chance, rs, fuel) ==
  IF s.ry >= GRID_ROWS - 1 THEN s
  ELSE IF fuel <= 1 THEN BlockStep(s, chance, rs)
  ELSE BlockLoop(BlockLoop(s, chance, rs, fuel \div 2), chance, rs,
                 fuel - (fuel \div 2))

\* The cells the two border loops write: row 0, row h-1, column 0, column w-1.
Border == {c \in Cells :
             c[1] = 0 \/ c[1] = GRID_COLS - 1 \/ c[2] = 0 \/ c[2] = GRID_ROWS - 1}

\* build_maze with the border loops writing 1 for 0.
build_maze_free_border(chance, seed) ==
  LET carved  == Carve(seed.choice).grid
      blocked == BlockLoop([grid |-> carved, k |-> 0, rx |-> 1, ry |-> 1], chance,
                           seed.block, (GRID_ROWS - 2) * (GRID_COLS - 2)).grid
  IN  [c \in Cells |-> IF c \in Border THEN 1 ELSE blocked[c]]

\* The body of generate_maze for a level whose extra_block_chance is chance.
build_maze(chance, seed) ==
  LET carved  == Carve(seed.choice).grid
      blocked == BlockLoop([grid |-> carved, k |-> 0, rx |-> 1, ry |-> 1], chance,
                           seed.block, (GRID_ROWS - 2) * (GRID_COLS - 2)).grid
  IN  [c \in Cells |-> IF c \in Border THEN 0 ELSE blocked[c]]

\* The levels a session of the model is set up with (the constructor and the
\* start button set level 1), and the chances of the levels it can get to
\* from them in MaxTicks calls of update.
SetupLevels == {1, MAX_LEVEL - 1, MAX_LEVEL}
TableChances ==
  {extra_block_chance(level + k) : level \in SetupLevels, k \in 0..MaxTicks}

\* build_maze tabulated for these chances and every seed.  (As f @@ f the
\* table is an explicit function, evaluated once.)
MazeTable ==
  LET f == [chance \in TableChances, seed \in Seeds |-> build_maze(chance, seed)]
  IN  f @@ f

generate_maze(level, seed) == MazeTable[extra_block_chance(level), seed]

\* Seeds that make generate_maze return the same grid for a level are
\* interchangeable: SeedsFor(level) keeps one seed for each grid that
\* generate_maze(level, _) can return (tabulated by chance, like MazeTable).
SeedTable ==
  LET f == [chance \in TableChances |->
              {s \in Seeds :
                 s = CHOOSE t \in Seeds : MazeTable[chance, t] = MazeTable[chance, s]}]
  IN  f @@ f

SeedsFor(level) == SeedTable[extra_block_chance(level)]

\* ------------------------------------------------------------------------
\* Coordinates (src/maze_runner.py:199-212)
\* ------------------------------------------------------------------------
grid_to_pixel(gx, gy) ==
  <<OFFSET_X + gx * TILE + TILE \div 2, OFFSET_Y + gy * TILE + TILE \div 2>>

pixel_to_grid(px, py) ==
  <<Max(0, Min(GRID_COLS - 1, (px - OFFSET_X) \div TILE)),
    Max(0, Min(GRID_ROWS - 1, (py - OFFSET_Y) \div TILE))>>

\* ------------------------------------------------------------------------
\* bfs_path (src/maze_runner.py:222-250)
\* ------------------------------------------------------------------------
\* Python's None: the value of came[start], and the result when there is no
\* path.  No cell and no path equals it (a path has at least one cell).
None == << >>

dirs == << <<1, 0>>, <<-1, 0>>, <<0, 1>>, <<0, -1>> >>

\* "for dx,dy in dirs" from the i-th direction on, around the cell cur, on
\* the search state s = [q, came, found]; came is the dict, a function from
\* the cells seen so far to their predecessor.
RECURSIVE bfs_expand(_, _, _, _)
bfs_expand(grid, s, cur, i) ==
  IF i > Len(dirs) THEN s
  ELSE LET n == <<cur[1] + dirs[i][1], cur[2] + dirs[i][2]>>
       IN  IF /\ 0 <= n[1] /\ n[1] < GRID_COLS /\ 0 <= n[2] /\ n[2] < GRID_ROWS
              /\ grid[n] = 1
              /\ n \notin DOMAIN s.came
           THEN bfs_expand(grid, [s EXCEPT !.came = (n :> cur) @@ s.came,
                                           !.q = Append(s.q, n)], cur, i + 1)
           ELSE bfs_expand(grid, s, cur, i + 1)

\* bfs_step taking the newest cell of the queue (q.pop() for q.popleft()).
bfs_step_newest(grid, s, goal) ==
  LET cur == s.q[Len(s.q)]
      t   == [s EXCEPT !.q = SubSeq(s.q, 1, Len(s.q) - 1)]
  IN  IF cur = goal THEN [t EXCEPT !.found = TRUE]
      ELSE bfs_expand(grid, t, cur, 1)

\* One iteration of "while q": popleft, break at the goal, else expand.
bfs_step(grid, s, goal) ==
  LET cur == Head(s.q)
      t   == [s EXCEPT !.q = Tail(s.q)]
  IN  IF cur = goal THEN [t EXCEPT !.found = TRUE]
      ELSE bfs_expand(grid, t, cur, 1)

\* "while q: ..." until the queue is empty or the break, for at most fuel
\* iterations (halved as in CarveLoop).
RECURSIVE bfs_loop(_, _, _, _)
bfs_loop(grid, s, goal, fuel) ==
  IF s.q = << >> \/ s.found THEN s
  ELSE IF fuel <= 1 THEN bfs_step(grid, s, goal)
  ELSE bfs_loop(grid, bfs_loop(grid, s, goal, fuel \div 2), goal,
                fuel - (fuel \div 2))

\* "while cur: path.append(cur); cur = came[cur]" on r = [path, cur].
RECURSIVE bfs_back(_, _, _)
bfs_back(came, r, fuel) ==
  IF r.cur = None THEN r
  ELSE IF fuel <= 1 THEN [path |-> Append(r.path, r.cur), cur |-> came[r.cur]]
  ELSE bfs_back(came, bfs_back(came, r, fuel \div 2), fuel - (fuel \div 2))

Reverse(seq) == [i \in 1..Len(seq) |-> seq[Len(seq) + 1 - i]]

\* A cell enters the queue at most once, so the number of cells plus one
\* bounds the iterations of both loops.
BfsFuel == GRID_COLS * GRID_ROWS + 1

bfs_path(grid, start, goal) ==
  IF start = goal THEN <<start>>
  ELSE LET s == bfs_loop(grid, [q |-> <<start>>, came |-> (start :> None),
                                found |-> FALSE], goal, BfsFuel)
       IN  IF goal \notin DOMAIN s.came THEN None
           ELSE Reverse(bfs_back(s.came, [path |-> << >>, cur |-> goal],
                                 BfsFuel).path)

\* ------------------------------------------------------------------------
\* Collision tests (src/maze_runner.py:369-390)
\* ------------------------------------------------------------------------
\* pygame.Rect.colliderect on two squares of positive side: the interiors
\* overlap (squares that only touch do not collide).
rects_collide(pos1, size1, pos2, size2) ==
  /\ pos1[1] < pos2[1] + size2
  /\ pos2[1] < pos1[1] + size1
  /\ pos1[2] < pos2[2] + size2
  /\ pos2[2] < pos1[2] + size1

\* corners sampling the far edge of the square (px + w for px + w - 2).
corners_on_edge(px, py) ==
  << <<px + 2, py + 2>>,
     <<px + PLAYER_SIZE, py + 2>>,
     <<px + 2, py + PLAYER_SIZE>>,
     <<px + PLAYER_SIZE, py + PLAYER_SIZE>> >>

corners(px, py) ==
  << <<px + 2, py + 2>>,
     <<px + PLAYER_SIZE - 2, py + 2>>,
     <<px + 2, py + PLAYER_SIZE - 2>>,
     <<px + PLAYER_SIZE - 2, py + PLAYER_SIZE - 2>> >>

can_move_to(grid, px, py) ==
  \A i \in 1..4 :
    LET g == pixel_to_grid(corners(px, py)[i][1], corners(px, py)[i][2])
    IN  /\ 0 <= g[1] /\ g[1] < GRID_COLS /\ 0 <= g[2] /\ g[2] < GRID_ROWS
        /\ grid[g] # 0

\* ------------------------------------------------------------------------
\* class MazeRunner (src/maze_runner.py:253-390).  The object is a record
\* self; besides the fields of the class it carries what the call in
\* progress has done so far:
\*   played      the keys passed to play_sound, in order;
\*   generated   the number of calls of generate_maze since the program
\*               started;
\*   moved_cell  the player cell computed by the last update_player_cell.
\* ------------------------------------------------------------------------
play_sound(self, key) == [self EXCEPT !.played = Append(self.played, key)]

\* Top-left corner of an actor of the given size centred in the cell.
CellTopLeft(cell, size) ==
  <<grid_to_pixel(cell[1], cell[2])[1] - size \div 2,
    grid_to_pixel(cell[1], cell[2])[2] - size \div 2>>

reset_positions(self) ==
  [self EXCEPT !.player_pos = CellTopLeft(SpawnCell, PLAYER_SIZE),
               !.enemy_pos = CellTopLeft(ExitCell, ENEMY_SIZE),
               !.player_cell = SpawnCell,
               !.enemy_cell = ExitCell]

update_player_cell(self) ==
  LET c == pixel_to_grid(self.player_pos[1] + PLAYER_SIZE \div 2,
                         self.player_pos[2] + PLAYER_SIZE \div 2)
  IN  [self EXCEPT !.player_cell = c, !.moved_cell = c]

update_enemy_cell(self) ==
  [self EXCEPT !.enemy_cell = pixel_to_grid(self.enemy_pos[1] + ENEMY_SIZE \div 2,
                                            self.enemy_pos[2] + ENEMY_SIZE \div 2)]

\* move_player testing the Y move at the X the player has after the X move
\* (as lines 338-341 do for the enemy).
move_player_y_after_x(self, input_dir) ==
  LET new_x == self.player_pos[1] + input_dir[1]
      new_y == self.player_pos[2] + input_dir[2]
      x1 == IF can_move_to(self.grid, new_x, self.player_pos[2])
            THEN new_x ELSE self.player_pos[1]
      y1 == IF can_move_to(self.grid, x1, new_y) THEN new_y ELSE self.player_pos[2]
  IN  [self EXCEPT !.player_pos = <<x1, y1>>]

\* update, lines 303-314: the player's move, each axis tested on its own
\* against the position before the move.
move_player(self, input_dir) ==
  LET new_x == self.player_pos[1] + input_dir[1]
      new_y == self.player_pos[2] + input_dir[2]
      can_move_x == can_move_to(self.grid, new_x, self.player_pos[2])
      can_move_y == can_move_to(self.grid, self.player_pos[1], new_y)
  IN  [self EXCEPT !.player_pos = <<IF can_move_x THEN new_x ELSE self.player_pos[1],
                                    IF can_move_y THEN new_y ELSE self.player_pos[2]>>]

\* Largest r with r * r <= n.
ISqrt(n) == CHOOSE r \in 0..n : r * r <= n /\ n < (r + 1) * (r + 1)

\* The source computes dist, vx and vy in floating point.  When the enemy's
\* centre and the centre of the next cell differ on one axis only, dist is
\* the absolute difference and the velocity is ENEMY_SPEED or -ENEMY_SPEED on
\* that axis and 0 on the other, exactly; these integer formulas give that.
\* Off the axes they round dist and the velocity down (PursuitOnAxis says the
\* case does not arise in the model).
velocity(dir_x, dir_y) ==
  LET dist == Max(1, ISqrt(dir_x * dir_x + dir_y * dir_y))
  IN  <<(ENEMY_SPEED * dir_x) \div dist, (ENEMY_SPEED * dir_y) \div dist>>

\* The offset from the enemy's centre to the centre of path[1].
pursuit_dir(self, path) ==
  <<grid_to_pixel(path[2][1], path[2][2])[1] - (self.enemy_pos[1] + ENEMY_SIZE \div 2),
    grid_to_pixel(path[2][1], path[2][2])[2] - (self.enemy_pos[2] + ENEMY_SIZE \div 2)>>

\* pursue heading for the player's cell itself when bfs_path gives no second
\* cell to head for.
pursue_without_path(self) ==
  LET path == bfs_path(self.grid, self.enemy_cell, self.player_cell)
      to   == IF path # None /\ Len(path) >= 2 THEN path
              ELSE <<self.enemy_cell, self.player_cell>>
      d    == pursuit_dir(self, to)
  IN  IF d[1] # 0 \/ d[2] # 0
      THEN LET v == velocity(d[1], d[2])
               new_ex == self.enemy_pos[1] + v[1]
               new_ey == self.enemy_pos[2] + v[2]
               ex1 == IF can_move_to(self.grid, new_ex, self.enemy_pos[2])
                      THEN new_ex ELSE self.enemy_pos[1]
               ey1 == IF can_move_to(self.grid, ex1, new_ey)
                      THEN new_ey ELSE self.enemy_pos[2]
           IN  [self EXCEPT !.enemy_pos = <<ex1, ey1>>]
      ELSE self

\* update, lines 319-341: the enemy steps towards the second cell of the
\* path; the Y move is tested at the X the enemy has after the X move.
pursue(self) ==
  LET path == bfs_path(self.grid, self.enemy_cell, self.player_cell)
  IN  IF path # None /\ Len(path) >= 2
      THEN LET d == pursuit_dir(self, path)
           IN  IF d[1] # 0 \/ d[2] # 0
               THEN LET v == velocity(d[1], d[2])
                        new_ex == self.enemy_pos[1] + v[1]
                        new_ey == self.enemy_pos[2] + v[2]
                        ex1 == IF can_move_to(self.grid, new_ex, self.enemy_pos[2])
                               THEN new_ex ELSE self.enemy_pos[1]
                        ey1 == IF can_move_to(self.grid, ex1, new_ey)
                               THEN new_ey ELSE self.enemy_pos[2]
                    IN  [self EXCEPT !.enemy_pos = <<ex1, ey1>>]
               ELSE self
      ELSE self

\* catch_check with the call of reset_positions (line 355) left out.
catch_check_keeps_positions(self) ==
  IF rects_collide(self.player_pos, PLAYER_SIZE, self.enemy_pos, ENEMY_SIZE)
  THEN LET s1 == play_sound(self, "caught")
           s2 == [s1 EXCEPT !.lives = s1.lives - 1]
       IN  IF s2.lives <= 0
           THEN [play_sound(s2, "gameover") EXCEPT !.state = "game_over"]
           ELSE s2
  ELSE self

\* update, lines 343-355: the catch.
catch_check(self) ==
  IF rects_collide(self.player_pos, PLAYER_SIZE, self.enemy_pos, ENEMY_SIZE)
  THEN LET s1 == play_sound(self, "caught")
           s2 == [s1 EXCEPT !.lives = s1.lives - 1]
       IN  IF s2.lives <= 0
           THEN [play_sound(s2, "gameover") EXCEPT !.state = "game_over"]
           ELSE reset_positions(s2)
  ELSE self

\* exit_check with the call of reset_positions (line 364) left out.
exit_check_keeps_positions(self, seed) ==
  IF self.player_cell = <<GRID_COLS - 2, GRID_ROWS - 2>>
  THEN LET s1 == play_sound(self, "levelup")
       IN  IF s1.level < MAX_LEVEL
           THEN [s1 EXCEPT !.level = s1.level + 1,
                           !.grid = generate_maze(s1.level + 1, seed),
                           !.generated = s1.generated + 1]
           ELSE [s1 EXCEPT !.state = "win"]
  ELSE self

\* exit_check with line 361 testing self.level <= MAX_LEVEL.
exit_check_past_max(self, seed) ==
  IF self.player_cell = <<GRID_COLS - 2, GRID_ROWS - 2>>
  THEN LET s1 == play_sound(self, "levelup")
       IN  IF s1.level <= MAX_LEVEL
           THEN reset_positions([s1 EXCEPT !.level = s1.level + 1,
                                           !.grid = generate_maze(s1.level + 1, seed),
                                           !.generated = s1.generated + 1])
           ELSE [s1 EXCEPT !.state = "win"]
  ELSE self

\* update, lines 357-367: the exit.
exit_check(self, seed) ==
  IF self.player_cell = <<GRID_COLS - 2, GRID_ROWS - 2>>
  THEN LET s1 == play_sound(self, "levelup")
       IN  IF s1.level < MAX_LEVEL
           THEN reset_positions([s1 EXCEPT !.level = s1.level + 1,
                                           !.grid = generate_maze(s1.level + 1, seed),
                                           !.generated = s1.generated + 1])
           ELSE [s1 EXCEPT !.state = "win"]
  ELSE self

\* update without the guard of lines 300-301.
update_in_any_state(self, input_dir, seed) ==
  exit_check(
    catch_check(
      pursue(
        update_enemy_cell(
          update_player_cell(
            move_player(self, input_dir))))), seed)

update(self, input_dir, seed) ==
  IF self.state # "playing" THEN self
  ELSE exit_check(
         catch_check(
           pursue(
             update_enemy_cell(
               update_player_cell(
                 move_player(self, input_dir))))), seed)

\* ------------------------------------------------------------------------
\* The program state
\* ------------------------------------------------------------------------
VARIABLES
  game,      \* the MazeRunner object (line 393), a record as described above
  running,   \* the process has not exited
  ticks,     \* calls of update made so far
  call       \* a call of one of the module's functions on its own: the
             \* function, its arguments and, once it returned, its result

vars == <<game, running, ticks, call>>

\* No function is being called on its own.
NoCall == [fn |-> "none"]

\* The object as a handler finds it: nothing played yet in this call.
Self == [game EXCEPT !.played = << >>]

\* The vectors main_loop passes to update: each axis is -PLAYER_SPEED, 0 or
\* PLAYER_SPEED (keyboard and touch pad, lines 441-520).
Inputs == {-PLAYER_SPEED, 0, PLAYER_SPEED} \X {-PLAYER_SPEED, 0, PLAYER_SPEED}

\* ------------------------------------------------------------------------
\* Initial states
\* ------------------------------------------------------------------------
\* MazeRunner.__init__ (lines 254-274) with the grid it generated.
MazeRunner(g) ==
  [level |-> 1, lives |-> START_LIVES, state |-> "menu", grid |-> g,
   player_pos |-> CellTopLeft(SpawnCell, PLAYER_SIZE),
   enemy_pos |-> CellTopLeft(ExitCell, ENEMY_SIZE),
   player_cell |-> SpawnCell, enemy_cell |-> ExitCell,
   played |-> << >>, generated |-> 1, moved_cell |-> SpawnCell]

\* The state the program starts in.
InitRun ==
  /\ \E seed \in SeedsFor(1) : game = MazeRunner(generate_maze(1, seed))
  /\ running = TRUE /\ ticks = 0 /\ call = NoCall

\* The actor positions <<player_pos, enemy_pos>> a PLAYING object is set up
\* with (its level is one of SetupLevels): both at their starts; the enemy on the player at
\* the spawn; the enemy two pixels to the right of the player; the enemy two
\* cells to the right of the player; both on the exit cell; the player on the
\* exit cell and the enemy on the spawn cell.
SetupActors ==
  LET spawn == CellTopLeft(SpawnCell, PLAYER_SIZE)
      exit  == CellTopLeft(ExitCell, PLAYER_SIZE)
  IN  {<<spawn, exit>>, <<spawn, spawn>>,
       <<spawn, <<spawn[1] + PLAYER_SIZE + 2, spawn[2]>> >>,
       <<spawn, CellTopLeft(<<3, 1>>, ENEMY_SIZE)>>,
       <<exit, exit>>, <<exit, spawn>>}

\* A PLAYING object as a caller of update sets it up (section 8 of the
\* specification tests update on such objects): a level, a number of lives,
\* a grid generated for the level, and the two actors placed by hand.
Setup(lvl, lvs, g, actors) ==
  LET pcell == pixel_to_grid(actors[1][1] + PLAYER_SIZE \div 2,
                             actors[1][2] + PLAYER_SIZE \div 2)
  IN  [level |-> lvl, lives |-> lvs, state |-> "playing", grid |-> g,
       player_pos |-> actors[1], enemy_pos |-> actors[2],
       player_cell |-> pcell,
       enemy_cell |-> pixel_to_grid(actors[2][1] + ENEMY_SIZE \div 2,
                                    actors[2][2] + ENEMY_SIZE \div 2),
       played |-> << >>, generated |-> 1, moved_cell |-> pcell]

InitSetup ==
  /\ \E lvl \in SetupLevels :
       \E seed \in SeedsFor(lvl), lvs \in 1..START_LIVES, actors \in SetupActors :
         game = Setup(lvl, lvs, generate_maze(lvl, seed), actors)
  /\ running = TRUE /\ ticks = 0 /\ call = NoCall

Init == InitRun \/ InitSetup

\* ------------------------------------------------------------------------
\* Actions: the MOUSEBUTTONDOWN handler of main_loop, by state and button,
\* and the call of update that ends every frame.
\* ------------------------------------------------------------------------
\* ClickStart with the assignment of START_LIVES (line 464) left out.
ClickStart_keeps_lives ==
  /\ running /\ game.state = "menu"
  /\ \E seed \in SeedsFor(1) :
       game' = reset_positions([play_sound(Self, "button") EXCEPT
                                  !.state = "playing",
                                  !.level = 1,
                                  !.grid = generate_maze(1, seed),
                                  !.generated = game.generated + 1])
  /\ UNCHANGED <<running, ticks, call>>

\* Lines 459-467: the start button, in the menu.
ClickStart ==
  /\ running /\ game.state = "menu"
  /\ \E seed \in SeedsFor(1) :
       game' = reset_positions([play_sound(Self, "button") EXCEPT
                                  !.state = "playing",
                                  !.level = 1,
                                  !.lives = START_LIVES,
                                  !.grid = generate_maze(1, seed),
                                  !.generated = game.generated + 1])
  /\ UNCHANGED <<running, ticks, call>>

\* Lines 468-471: the exit button, in the menu.
ClickExit ==
  /\ running /\ game.state = "menu"
  /\ game' = play_sound(Self, "button")
  /\ running' = FALSE
  /\ UNCHANGED <<ticks, call>>

\* ClickRestart resetting the level and the lives on the way to the menu.
ClickRestart_resets ==
  /\ running /\ game.state = "game_over"
  /\ game' = [play_sound(Self, "button") EXCEPT !.state = "menu",
                                                !.level = 1,
                                                !.lives = START_LIVES]
  /\ UNCHANGED <<running, ticks, call>>

\* Lines 472-476: the restart button, after a game over.
ClickRestart ==
  /\ running /\ game.state = "game_over"
  /\ game' = [play_sound(Self, "button") EXCEPT !.state = "menu"]
  /\ UNCHANGED <<running, ticks, call>>

\* ClickWin starting a run instead of showing the menu.
ClickWin_plays ==
  /\ running /\ game.state = "win"
  /\ game' = [Self EXCEPT !.state = "playing"]
  /\ UNCHANGED <<running, ticks, call>>

\* Lines 487-490: any click, after a win.
ClickWin ==
  /\ running /\ game.state = "win"
  /\ game' = [Self EXCEPT !.state = "menu"]
  /\ UNCHANGED <<running, ticks, call>>

\* Line 523: game.update(dt, input_dir).  update reads the random module
\* only when it calls generate_maze, which the count of calls shows.
AnySeed == CHOOSE seed \in Seeds : TRUE

Tick ==
  /\ running /\ ticks < MaxTicks
  /\ ticks' = ticks + 1
  /\ \E input_dir \in Inputs :
       LET r == update(Self, input_dir, AnySeed)
       IN  IF r.generated = game.generated
           THEN game' = r
           ELSE \E seed \in SeedsFor(r.level) : game' = update(Self, input_dir, seed)
  /\ UNCHANGED <<running, call>>

Next == ClickStart \/ ClickExit \/ ClickRestart \/ ClickWin \/ Tick

Spec == Init /\ [][Next]_vars

\* The program from its start, without the set-up objects.
SpecRun == InitRun /\ [][Next]_vars

\* ------------------------------------------------------------------------
\* The functions of the module called on their own: Init draws a function
\* and its arguments, the action of the function applies it.
\* ------------------------------------------------------------------------
\* Period of the randint stream of the grids the functions are called with
\* (with a period of 1 a grid has all or none of its cells re-blocked).
CallBlockLen == 2

CallSeeds ==
  [choice : [1..ChoiceLen -> ChoiceDraws], block : [1..CallBlockLen -> RandDraws]]
CallLevels == {1, MAX_LEVEL}

\* Two grids no level generates: a room with every interior cell free (many
\* paths between two cells), and a grid without any wall.
OpenRoom == [c \in Cells |-> IF c \in Border THEN 0 ELSE 1]
NoWalls == [c \in Cells |-> 1]

\* The grids generate_maze returns for the levels and the seeds.
GeneratedGrids(levels, seeds) ==
  {build_maze(extra_block_chance(level), seed) : level \in levels, seed \in seeds}

\* Start and goal cells: coarse cells (free unless re-blocked), a cell between
\* two coarse cells, cells that are walls in every generated grid (a corner of
\* the lattice, the exit cell, a border cell), and cells outside the grid.
PathStarts ==
  {<<1, 1>>, <<19, 15>>, <<9, 7>>, <<2, 1>>, <<2, 2>>, <<20, 16>>, <<0, 1>>,
   <<-1, 1>>, <<1, GRID_ROWS>>}
PathGoals == {<<1, 1>>, <<19, 15>>, <<9, 7>>, <<2, 2>>, <<-1, 1>>}

\* The calls of bfs_path on the grids.
BfsCalls(grids) ==
  {[fn |-> "bfs_path", grid |-> g, start |-> s, goal |-> t,
    returned |-> FALSE, result |-> None] :
     g \in grids, s \in PathStarts, t \in PathGoals}

\* Top-left coordinates on one axis: in the cell before the grid, in the
\* first and the last cells, in the cell after the grid; at an offset that
\* keeps both sample points of the axis in the cell (3), that puts the second
\* one on the last pixel of the cell (7), and on the first pixel of the next
\* cell (8).
MoveOffsets == {3, 7, 8}
MoveXs ==
  {OFFSET_X + TILE * c + o :
     c \in {-1, 0, 1, 2, GRID_COLS - 2, GRID_COLS - 1, GRID_COLS}, o \in MoveOffsets}
MoveYs ==
  {OFFSET_Y + TILE * c + o :
     c \in {-1, 0, 1, 2, GRID_ROWS - 2, GRID_ROWS - 1, GRID_ROWS}, o \in MoveOffsets}

CanMoveCalls(grids) ==
  {[fn |-> "can_move_to", grid |-> g, px |-> x, py |-> y,
    returned |-> FALSE, result |-> None] :
     g \in grids, x \in MoveXs, y \in MoveYs}

\* PLAYING objects update is called on: level 1, on a generated grid, the
\* enemy at its start, the player at a position can_move_to accepts in or
\* around one of three coarse cells: centred in the cell (offset 3 from the
\* cell's corner), flush with the cell's near side (-1) or far side (7), or
\* reaching into the neighbouring cell (-3, 9).
StartCells == {<<1, 1>>, <<GRID_COLS - 3, 1>>, <<1, 3>>}
StartOffsets == {-3, -1, 3, 7, 9}
StartPositions(g) ==
  {pos \in {<<OFFSET_X + TILE * c[1] + ox, OFFSET_Y + TILE * c[2] + oy>> :
              c \in StartCells, ox \in StartOffsets, oy \in StartOffsets} :
     can_move_to(g, pos[1], pos[2])}

UpdateCalls(grids) ==
  UNION {{[fn |-> "update",
           self |-> Setup(1, START_LIVES, g, <<pos, CellTopLeft(ExitCell, ENEMY_SIZE)>>),
           input_dir |-> d, returned |-> FALSE, result |-> None] :
            pos \in StartPositions(g), d \in Inputs} : g \in grids}

\* PLAYING objects with both actors centred in two different coarse cells
\* (free unless re-blocked; joined or not, as the grid has it).
PursuitCalls(grids) ==
  {[fn |-> "update",
    self |-> Setup(1, START_LIVES, g,
                   <<CellTopLeft(pe[1], PLAYER_SIZE), CellTopLeft(pe[2], ENEMY_SIZE)>>),
    input_dir |-> <<0, 0>>, returned |-> FALSE, result |-> None] :
     g \in grids, pe \in {c \in StartCells \X StartCells : c[1] # c[2]}}

\* Calls of generate_maze: for a level, with a seed; and with the
\* re-blocking pass disabled (a chance of 0, below every randint result), for
\* a stream of random.choice results of period CallChoiceLen.
CallChoiceLen == 3
GenLevels == {1, 96, 97, MAX_LEVEL}
GenerateCalls ==
  {[fn |-> "generate_maze", level |-> l, blocking |-> TRUE, seed |-> s,
    returned |-> FALSE, result |-> None] : l \in GenLevels, s \in CallSeeds}
  \cup
  {[fn |-> "generate_maze", level |-> 1, blocking |-> FALSE,
    seed |-> [choice |-> cs, block |-> [k \in 1..1 |-> 100]],
    returned |-> FALSE, result |-> None] : cs \in [1..CallChoiceLen -> ChoiceDraws]}

\* The computation of extra_block_chance (line 180) for a level.
ChanceCalls ==
  {[fn |-> "extra_block_chance", level |-> l, returned |-> FALSE, result |-> None] :
     l \in 1..MAX_LEVEL}

InitCalls ==
  /\ game = MazeRunner(OpenRoom)
  /\ running = FALSE /\ ticks = 0
  /\ LET grids == GeneratedGrids(CallLevels, CallSeeds)
     IN  call \in BfsCalls(grids \cup {OpenRoom, NoWalls}) \cup CanMoveCalls(grids)
                    \cup UpdateCalls(grids) \cup PursuitCalls(grids)
                    \cup GenerateCalls \cup ChanceCalls

CallBfsPath ==
  /\ call.fn = "bfs_path" /\ ~call.returned
  /\ call' = [call EXCEPT !.returned = TRUE,
                          !.result = bfs_path(call.grid, call.start, call.goal)]
  /\ UNCHANGED <<game, running, ticks>>

CallCanMoveTo ==
  /\ call.fn = "can_move_to" /\ ~call.returned
  /\ call' = [call EXCEPT !.returned = TRUE,
                          !.result = can_move_to(call.grid, call.px, call.py)]
  /\ UNCHANGED <<game, running, ticks>>

CallUpdate ==
  /\ call.fn = "update" /\ ~call.returned
  /\ call' = [call EXCEPT !.returned = TRUE,
                          !.result = update(call.self, call.input_dir, AnySeed)]
  /\ UNCHANGED <<game, running, ticks>>

\* The body of generate_maze, evaluated for the seed of the call.
CallGenerateMaze ==
  /\ call.fn = "generate_maze" /\ ~call.returned
  /\ call' = [call EXCEPT
                !.returned = TRUE,
                !.result = build_maze(IF call.blocking
                                      THEN extra_block_chance(call.level) ELSE 0,
                                      call.seed)]
  /\ UNCHANGED <<game, running, ticks>>

CallChance ==
  /\ call.fn = "extra_block_chance" /\ ~call.returned
  /\ call' = [call EXCEPT !.returned = TRUE,
                          !.result = extra_block_chance(call.level)]
  /\ UNCHANGED <<game, running, ticks>>

NextCalls ==
  CallBfsPath \/ CallCanMoveTo \/ CallUpdate \/ CallGenerateMaze \/ CallChance

SpecCalls == InitCalls /\ [][NextCalls]_vars

\* ------------------------------------------------------------------------
\* generate_maze run iteration by iteration: Init draws a level and a seed,
\* CarvePush and CarvePop are the two branches of one iteration of the
\* carving loop (lines 164-176), CarveReturn is the rest of the function
\* (lines 178-197).  The call holds the loop's grid and stack, and the
\* number k of random.choice calls made so far.
\* ------------------------------------------------------------------------
CarveLevels == {1, MAX_LEVEL}
\* One stream of randint results: 35 re-blocks no cell at level 1 and every
\* cell at MAX_LEVEL.
CarveBlocks == {[k \in 1..1 |-> 35]}
CarveCalls ==
  {[fn |-> "carve", level |-> l, seed |-> [choice |-> cs, block |-> rs],
    grid |-> [c \in Cells |-> IF c = SpawnCell THEN 1 ELSE 0],
    stack |-> <<SpawnCell>>, k |-> 0, returned |-> FALSE, result |-> None] :
     l \in CarveLevels, cs \in [1..CallChoiceLen -> ChoiceDraws], rs \in CarveBlocks}

InitCarve ==
  /\ game = MazeRunner(OpenRoom)
  /\ running = FALSE /\ ticks = 0
  /\ call \in CarveCalls

\* Line 166: the neighbours of the top of the stack that are still WALL.
unvisited(grid, stack) ==
  LET top == stack[Len(stack)]
  IN  SelectSeq(neighbors(top[1], top[2]), LAMBDA p : grid[p] = 0)

\* The loop state of the call after one more iteration.
CarveIterate ==
  LET s == CarveStep([grid |-> call.grid, stack |-> call.stack, k |-> call.k],
                     call.seed.choice)
  IN  call' = [call EXCEPT !.grid = s.grid, !.stack = s.stack, !.k = s.k]

\* "if nb:" (lines 167-174).
CarvePush ==
  /\ call.fn = "carve" /\ ~call.returned /\ call.stack # << >>
  /\ unvisited(call.grid, call.stack) # << >>
  /\ CarveIterate
  /\ UNCHANGED <<game, running, ticks>>

\* "else: stack.pop()" (lines 175-176).
CarvePop ==
  /\ call.fn = "carve" /\ ~call.returned /\ call.stack # << >>
  /\ unvisited(call.grid, call.stack) = << >>
  /\ CarveIterate
  /\ UNCHANGED <<game, running, ticks>>

\* The loop is left with an empty stack; the re-blocking pass and the border
\* loops run on the carved grid and the function returns.
CarveReturn ==
  /\ call.fn = "carve" /\ ~call.returned /\ call.stack = << >>
  /\ LET blocked == BlockLoop([grid |-> call.grid, k |-> 0, rx |-> 1, ry |-> 1],
                              extra_block_chance(call.level), call.seed.block,
                              (GRID_ROWS - 2) * (GRID_COLS - 2)).grid
     IN  call' = [call EXCEPT
                    !.returned = TRUE,
                    !.result = [c \in Cells |-> IF c \in Border THEN 0 ELSE blocked[c]]]
  /\ UNCHANGED <<game, running, ticks>>

NextCarve == CarvePush \/ CarvePop \/ CarveReturn

\* The function is sequential code: an iteration that can run does run.
SpecCarve == InitCarve /\ [][NextCarve]_vars /\ WF_vars(NextCarve)

\* ------------------------------------------------------------------------
\* Properties
\* ------------------------------------------------------------------------
Has(seq, key) == \E i \in DOMAIN seq : seq[i] = key

\* The step is a call of update on a PLAYING object.
UpdateStep == game.state = "playing" /\ ticks' = ticks + 1

\* The call found the footprints overlapping after the motion steps.
Catch == UpdateStep /\ Has(game'.played, "caught")

\* The call found the player on the exit cell after the motion steps.
OnExit == UpdateStep /\ game'.moved_cell = ExitCell

\* Both actors at their level-start values.
AtStart(g) ==
  /\ g.player_pos = CellTopLeft(SpawnCell, PLAYER_SIZE)
  /\ g.player_cell = SpawnCell
  /\ g.enemy_pos = CellTopLeft(ExitCell, ENEMY_SIZE)
  /\ g.enemy_cell = ExitCell

\* The enemy's step is along one axis whenever it has a path to follow, for
\* every input, in the session and in the calls of update on their own (see
\* velocity).
OnAxis(self, input_dir) ==
  LET s == update_enemy_cell(update_player_cell(move_player(self, input_dir)))
      path == bfs_path(s.grid, s.enemy_cell, s.player_cell)
  IN  (path # None /\ Len(path) >= 2) =>
        (pursuit_dir(s, path)[1] = 0 \/ pursuit_dir(s, path)[2] = 0)

PursuitOnAxis ==
  /\ game.state = "playing" => \A input_dir \in Inputs : OnAxis(Self, input_dir)
  /\ call.fn = "update" => OnAxis(call.self, call.input_dir)

\* C1: every grid generate_maze returns has the spawn cell (1, 1) and the
\* exit cell (GRID_COLS - 2, GRID_ROWS - 2) open.  The grid of the game is
\* always one generate_maze returned.
C1_SpawnAndExitOpen ==
  game.grid[SpawnCell] = 1 /\ game.grid[ExitCell] = 1

\* C2: a call of update that finds both the catch and the exit applies the
\* catch only: the level is not incremented, the grid is not regenerated and
\* the state does not become WIN, whatever the lives and the level.
C2_CatchExcludesExit ==
  [][(Catch /\ OnExit) =>
       /\ game'.level = game.level
       /\ game'.generated = game.generated
       /\ game'.grid = game.grid
       /\ game'.state # "win"
       /\ ~Has(game'.played, "levelup")]_vars

\* C3: a catch with one life left ends the call in GAME_OVER with no lives
\* and the level it started with, whatever cell the player is on.
C3_LastLifeGameOver ==
  [][(Catch /\ game.lives = 1) =>
       /\ game'.state = "game_over"
       /\ game'.lives = 0
       /\ game'.level = game.level]_vars

\* C4: a catch with two lives or more takes one life, stays in PLAYING,
\* keeps the level and the grid, and puts both actors back at their
\* level-start values.
C4_CatchResets ==
  [][(Catch /\ game.lives >= 2) =>
       /\ game'.lives = game.lives - 1
       /\ game'.state = "playing"
       /\ game'.level = game.level
       /\ game'.grid = game.grid
       /\ game'.generated = game.generated
       /\ AtStart(game')]_vars

C4_Witness ==
  /\ game.played = <<"caught">>
  /\ game.state = "playing"
  /\ game.lives = START_LIVES - 1
  /\ AtStart(game)

\* C5: a call of update without a catch that finds the player on the exit
\* cell: below MAX_LEVEL the level goes up by one, a grid is generated for
\* the new level, both actors are reset, the lives are unchanged and the
\* state stays PLAYING; at MAX_LEVEL the state becomes WIN, the level stays
\* and no grid is generated.
C5_ExitResolution ==
  [][(OnExit /\ ~Catch) =>
       IF game.level < MAX_LEVEL
       THEN /\ game'.level = game.level + 1
            /\ game'.generated = game.generated + 1
            /\ \E seed \in SeedsFor(game'.level) :
                 game'.grid = generate_maze(game'.level, seed)
            /\ AtStart(game')
            /\ game'.lives = game.lives
            /\ game'.state = "playing"
       ELSE /\ game'.state = "win"
            /\ game'.level = MAX_LEVEL
            /\ game'.generated = game.generated
            /\ game'.grid = game.grid
            /\ game'.lives = game.lives]_vars

C5_Witness ==
  /\ game.played = <<"levelup">>
  /\ game.state = "playing"
  /\ game.level = MAX_LEVEL
  /\ game.generated = 2
  /\ AtStart(game)

\* C6: a constructed game is in MENU, and the state changes only along
\* MENU -> PLAYING, PLAYING -> GAME_OVER, PLAYING -> WIN, GAME_OVER -> MENU
\* and WIN -> MENU.
Edges ==
  {<<"menu", "playing">>, <<"playing", "game_over">>, <<"playing", "win">>,
   <<"game_over", "menu">>, <<"win", "menu">>}

C6_StateEdges ==
  /\ \A seed \in SeedsFor(1) : MazeRunner(generate_maze(1, seed)).state = "menu"
  /\ [][game'.state # game.state => <<game.state, game'.state>> \in Edges]_vars

C6_Witness ==
  game.state = "menu" /\ game.level = MAX_LEVEL /\ game.played = << >>

\* C7: a call of update in MENU, GAME_OVER or WIN changes nothing: the
\* level, the lives, the grid, the actors' positions and cells and the
\* state are as before, for every input.
C7_UpdateOnlyWhenPlaying ==
  [][(game.state # "playing" /\ ticks' = ticks + 1) =>
       /\ game'.level = game.level
       /\ game'.lives = game.lives
       /\ game'.grid = game.grid
       /\ game'.player_pos = game.player_pos
       /\ game'.enemy_pos = game.enemy_pos
       /\ game'.player_cell = game.player_cell
       /\ game'.enemy_cell = game.enemy_cell
       /\ game'.state = game.state
       /\ game'.generated = game.generated
       /\ game'.played = << >>]_vars

C7_Witness ==
  game.state = "game_over" /\ game.played = << >> /\ ticks >= 2

C9_StartNewRun ==
  [][(game.state # "playing" /\ game'.state = "playing") =>
       /\ game.state = "menu"
       /\ game'.level = 1
       /\ game'.lives = START_LIVES
       /\ game'.generated = game.generated + 1
       /\ \E seed \in SeedsFor(1) : game'.grid = generate_maze(1, seed)
       /\ AtStart(game')]_vars

C9_Witness ==
  /\ game.state = "playing"
  /\ game.played = <<"button">>
  /\ game.generated = 2
  /\ ticks >= 1

\* C10: the level is always in 1..MAX_LEVEL, and outside MENU a step leaves
\* it or adds one to it.
C10_LevelRange ==
  /\ [](game.level \in 1..MAX_LEVEL)
  /\ [][game.state # "menu" => game'.level \in {game.level, game.level + 1}]_vars

C10_Witness ==
  game.level = 2 /\ game.generated = 2 /\ game.state = "playing"

\* In bounds and free.
IsOpen(grid, c) == c \in Cells /\ grid[c] = 1

Adjacent(a, b) ==
  \/ a[1] = b[1] /\ (a[2] = b[2] + 1 \/ b[2] = a[2] + 1)
  \/ a[2] = b[2] /\ (a[1] = b[1] + 1 \/ b[1] = a[1] + 1)

\* The free cells one step away from a set of cells.
Around(grid, cs) ==
  {n \in Cells : grid[n] = 1 /\ \E c \in cs : Adjacent(n, c)}

\* The cells at distance d from the start, layer after layer, on
\* w = [seen, layer, d]: seen is every cell at distance d or less.
RECURSIVE Layers(_, _, _, _)
Layers(grid, w, goal, fuel) ==
  IF goal \in w.seen \/ w.layer = {} THEN w
  ELSE IF fuel <= 1
       THEN LET next == Around(grid, w.layer) \ w.seen
            IN  [seen |-> w.seen \cup next, layer |-> next, d |-> w.d + 1]
  ELSE Layers(grid, Layers(grid, w, goal, fuel \div 2), goal, fuel - (fuel \div 2))

\* The number of steps of a shortest walk from start to goal through free
\* cells, -1 when there is none.
Distance(grid, start, goal) ==
  LET w == Layers(grid, [seen |-> {start}, layer |-> {start}, d |-> 0], goal,
                  GRID_COLS * GRID_ROWS)
  IN  IF goal \in w.seen THEN w.d ELSE -1

IsWalk(grid, path, start, goal) ==
  /\ path # None
  /\ path[1] = start /\ path[Len(path)] = goal
  /\ \A i \in 1..Len(path) : IsOpen(grid, path[i])
  /\ \A i \in 1..Len(path) - 1 : Adjacent(path[i], path[i + 1])

\* C11: for a start and a goal that are in bounds and free, bfs_path returns
\* None when the goal cannot be reached from the start through free cells,
\* and otherwise a walk from start to goal through free cells with the least
\* possible number of steps (<<start>> when start = goal).
C11_ShortestPath ==
  (/\ call.fn = "bfs_path" /\ call.returned
   /\ IsOpen(call.grid, call.start) /\ IsOpen(call.grid, call.goal)) =>
    LET d == Distance(call.grid, call.start, call.goal)
    IN  IF d = -1 THEN call.result = None
        ELSE /\ IsWalk(call.grid, call.result, call.start, call.goal)
             /\ Len(call.result) = d + 1
             /\ (call.start = call.goal => call.result = <<call.start>>)

\* The path of 33 cells was returned in the room, where many
\* longer walks join the same two cells.
C11_Witness ==
  /\ call.fn = "bfs_path" /\ call.returned
  /\ call.grid = OpenRoom
  /\ call.start = <<1, 1>> /\ call.goal = <<19, 15>>
  /\ Len(call.result) = 33

\* C12: when the start or the goal is a wall or lies outside the grid,
\* bfs_path returns None; also for a wall start with a free neighbour joined
\* to the goal, and for start = goal on a wall.
C12_WallOrOutsideIsNoPath ==
  (/\ call.fn = "bfs_path" /\ call.returned
   /\ (~IsOpen(call.grid, call.start) \/ ~IsOpen(call.grid, call.goal))) =>
    call.result = None

\* The four points can_move_to is said to sample for the top-left <<px, py>>.
SamplePoints(px, py) ==
  {<<px + 2, py + 2>>, <<px + PLAYER_SIZE - 2, py + 2>>,
   <<px + 2, py + PLAYER_SIZE - 2>>, <<px + PLAYER_SIZE - 2, py + PLAYER_SIZE - 2>>}

\* The point is inside the pixel area of the grid.
InArea(pt) ==
  /\ OFFSET_X <= pt[1] /\ pt[1] < OFFSET_X + GRID_COLS * TILE
  /\ OFFSET_Y <= pt[2] /\ pt[2] < OFFSET_Y + GRID_ROWS * TILE

\* The cell that contains a point of the area.
CellOf(pt) == <<(pt[1] - OFFSET_X) \div TILE, (pt[2] - OFFSET_Y) \div TILE>>

\* C13: on a generated grid can_move_to(px, py) is true exactly when each of
\* the four sample points is inside the grid's pixel area and in a free
\* cell; a position with a sample point outside the area is rejected.
C13_CanMoveTo ==
  (call.fn = "can_move_to" /\ call.returned) =>
    (call.result <=>
       \A pt \in SamplePoints(call.px, call.py) :
         InArea(pt) /\ call.grid[CellOf(pt)] = 1)

\* A position was accepted whose far sample points are on the last pixel
\* row and the last pixel column of the spawn cell.
C13_Witness ==
  /\ call.fn = "can_move_to" /\ call.returned /\ call.result
  /\ call.px = OFFSET_X + TILE + 7 /\ call.py = OFFSET_Y + TILE + 7

\* The position is legal: its four sample points are in free cells.
Legal(grid, px, py) ==
  \A pt \in SamplePoints(px, py) : InArea(pt) /\ grid[CellOf(pt)] = 1

\* The call of update returned without a catch and without a level change,
\* so the positions are those of the motion steps.
MotionOnly ==
  /\ call.fn = "update" /\ call.returned
  /\ call.self.state = "playing"
  /\ call.result.played = << >>

\* C14: in a PLAYING tick with the player at (x, y) and the input (dx, dy),
\* the new x is x + dx if (x + dx, y) is legal and x otherwise, and the new y
\* is y + dy if (x, y + dy) is legal and y otherwise.
C14_AxesDecoupled ==
  MotionOnly =>
    LET x  == call.self.player_pos[1]
        y  == call.self.player_pos[2]
        dx == call.input_dir[1]
        dy == call.input_dir[2]
    IN  /\ call.result.player_pos[1] =
             (IF Legal(call.self.grid, x + dx, y) THEN x + dx ELSE x)
        /\ call.result.player_pos[2] =
             (IF Legal(call.self.grid, x, y + dy) THEN y + dy ELSE y)

\* A diagonal request against a wall on the X side moved the player on Y
\* only.
C14_Witness ==
  /\ MotionOnly
  /\ call.input_dir[1] # 0 /\ call.input_dir[2] # 0
  /\ call.result.player_pos[1] = call.self.player_pos[1]
  /\ call.result.player_pos[2] = call.self.player_pos[2] + call.input_dir[2]

\* The cell the enemy occupies when update queries bfs_path.
EnemyCellOf(self) ==
  pixel_to_grid(self.enemy_pos[1] + ENEMY_SIZE \div 2,
                self.enemy_pos[2] + ENEMY_SIZE \div 2)

\* The path update got from bfs_path in the call that returned.
QueriedPath ==
  bfs_path(call.self.grid, EnemyCellOf(call.self), call.result.moved_cell)

\* C15: in a PLAYING tick in which bfs_path returns None or a path of fewer
\* than two cells, the pursuit leaves the enemy where it was (ticks with a
\* catch or a level change reset it).
C15_NoPathNoMove ==
  (MotionOnly /\ (QueriedPath = None \/ Len(QueriedPath) < 2)) =>
    call.result.enemy_pos = call.self.enemy_pos

\* The enemy stayed in a free cell from which no walk leads to the player.
C15_Witness ==
  /\ MotionOnly
  /\ IsOpen(call.self.grid, EnemyCellOf(call.self))
  /\ IsOpen(call.self.grid, call.result.moved_cell)
  /\ QueriedPath = None
  /\ call.result.enemy_pos = call.self.enemy_pos

\* C16: every cell of row 0, of the last row, of column 0 and of the last
\* column of a grid generate_maze returns is a wall.
C16_BorderIsWall ==
  (call.fn = "generate_maze" /\ call.returned /\ call.blocking) =>
    \A c \in Cells :
      (c[1] = 0 \/ c[1] = GRID_COLS - 1 \/ c[2] = 0 \/ c[2] = GRID_ROWS - 1) =>
        call.result[c] = 0

\* A grid was returned for the last level with free cells in the first and
\* the last carved column and row.
C16_Witness ==
  /\ call.fn = "generate_maze" /\ call.returned /\ call.blocking
  /\ call.level = MAX_LEVEL
  /\ \E c \in Cells : c[1] = 1 /\ c[2] > 1 /\ call.result[c] = 1
  /\ \E c \in Cells : c[1] = GRID_COLS - 3 /\ call.result[c] = 1
  /\ \E c \in Cells : c[2] = 1 /\ c[1] > 1 /\ call.result[c] = 1
  /\ \E c \in Cells : c[2] = GRID_ROWS - 3 /\ call.result[c] = 1

\* The cells joined to the start by a walk through free cells.
Reachable(grid, start) ==
  Layers(grid, [seen |-> {start}, layer |-> {start}, d |-> 0], <<-1, -1>>,
         GRID_COLS * GRID_ROWS).seen

\* C17: with the re-blocking pass disabled, every free cell of the grid is
\* joined to the spawn cell by a walk through free cells.
C17_CarvingConnected ==
  (call.fn = "generate_maze" /\ call.returned /\ ~call.blocking) =>
    {c \in Cells : call.result[c] = 1} = Reachable(call.result, SpawnCell)

\* A carved grid was returned with every coarse cell free.
C17_Witness ==
  /\ call.fn = "generate_maze" /\ call.returned /\ ~call.blocking
  /\ \A c \in Cells :
       (c[1] % 2 = 1 /\ c[2] % 2 = 1 /\ c \notin Border) => call.result[c] = 1

\* C18: the blocking percentage of level L is min(35, 3 + floor((L - 1) / 3)):
\* with q the integer such that 3q <= L - 1 < 3q + 3, it is q + 3 or 35,
\* whichever is smaller.  So it is 3 at level 1, never above 35, and the
\* percentage of level L + 3 is not below that of level L.
C18_BlockingChance ==
  (call.fn = "extra_block_chance" /\ call.returned) =>
    /\ \E q \in 0..MAX_LEVEL :
         /\ 3 * q <= call.level - 1 /\ call.level - 1 < 3 * q + 3
         /\ call.result = (IF q + 3 < 35 THEN q + 3 ELSE 35)
    /\ call.result <= 35
    /\ (call.level = 1 => call.result = 3)
    /\ extra_block_chance(call.level + 1) >= call.result
    /\ extra_block_chance(call.level + 3) >= call.result

\* The percentage of the first level that reaches the cap.
C18_Witness ==
  /\ call.fn = "extra_block_chance" /\ call.returned
  /\ call.level = 97 /\ call.result = 35

\* C19: each time update queries bfs_path in a PLAYING state, the cell of
\* the player and the cell of the enemy are free cells of the grid.
C19_ActorCellsOpen ==
  [][UpdateStep =>
       /\ IsOpen(game.grid, game'.moved_cell)
       /\ IsOpen(game.grid, EnemyCellOf(game))]_vars

\* The top-left positions whose centre is in the exit cell or within one
\* step of it.
NearExit ==
  LET x0 == OFFSET_X + TILE * ExitCell[1] - PLAYER_SIZE \div 2
      y0 == OFFSET_Y + TILE * ExitCell[2] - PLAYER_SIZE \div 2
  IN  (x0 - PLAYER_SPEED .. x0 + TILE - 1 + PLAYER_SPEED)
        \X (y0 - PLAYER_SPEED .. y0 + TILE - 1 + PLAYER_SPEED)

PlayerCellAt(pos) ==
  pixel_to_grid(pos[1] + PLAYER_SIZE \div 2, pos[2] + PLAYER_SIZE \div 2)

\* Some motion step takes the player from a position whose cell is not the
\* exit cell to a position whose cell is the exit cell.  The player starts
\* every level in the spawn cell, so without such a step its cell is never
\* the exit cell.
CanEnterExit(grid) ==
  \E pos \in NearExit, input_dir \in Inputs :
    /\ PlayerCellAt(pos) # ExitCell
    /\ PlayerCellAt(move_player([grid |-> grid, player_pos |-> pos],
                                input_dir).player_pos) = ExitCell

\* C20: the level can progress: when a run is started from the menu, for
\* some grid generate_maze can return for level 1 some sequence of inputs
\* brings the player's cell to the exit cell (and so the level to 2).
C20_ExitCanBeEntered ==
  game.state = "menu" =>
    \E seed \in SeedsFor(1) : CanEnterExit(generate_maze(1, seed))

\* C21: at the end of a PLAYING tick the player's position is legal: from a
\* legal position, whatever the input vector (each axis -2, 0 or 2), the
\* motion step of update leaves the four sample points in free cells of the
\* grid.
C21_PositionLegal ==
  (MotionOnly /\ Legal(call.self.grid, call.self.player_pos[1], call.self.player_pos[2])) =>
    Legal(call.result.grid, call.result.player_pos[1], call.result.player_pos[2])

\* The coarse cells: the cells the carving loop can push.
CoarseCells ==
  {c \in Cells : /\ c[1] % 2 = 1 /\ c[2] % 2 = 1
                 /\ c[1] <= GRID_COLS - 2 /\ c[2] <= GRID_ROWS - 2}

\* The step opened a coarse cell that was WALL and pushed it.
Pushed ==
  /\ Len(call'.stack) = Len(call.stack) + 1
  /\ SubSeq(call'.stack, 1, Len(call.stack)) = call.stack
  /\ LET n == call'.stack[Len(call'.stack)]
     IN  n \in CoarseCells /\ call.grid[n] = 0 /\ call'.grid[n] = 1

\* The step popped the stack and left the grid as it was.
Popped ==
  /\ call'.stack = SubSeq(call.stack, 1, Len(call.stack) - 1)
  /\ call'.grid = call.grid

\* C22: the carving loop of generate_maze terminates for every level and
\* every stream of random neighbour choices: every iteration either opens a
\* coarse cell that was WALL and pushes it, or pops the stack, and
\* eventually the stack is empty and generate_maze returns a grid.
C22_CarvingTerminates ==
  /\ [][(call.fn = "carve" /\ call.stack # << >>) => (Pushed \/ Popped)]_vars
  /\ <>(/\ call.fn = "carve" /\ call.returned /\ call.stack = << >>
        /\ call.result \in [Cells -> {0, 1}])

\* A run of the loop returned after it had pushed every coarse cell (one
\* random.choice call for each but the first).
C22_Witness ==
  /\ call.fn = "carve" /\ call.returned /\ call.stack = << >>
  /\ call.k = Cardinality(CoarseCells) - 1
  /\ \A c \in CoarseCells : call.grid[c] = 1

====
